---------------------------- MODULE Spec2Model ----------------------------
(***************************************************************************)
(* Ledger of credit notes (notas de credito), commitments (empenhos),      *)
(* reversals (anulacoes) and returns (recolhimentos) of src/main.py.       *)
(*                                                                         *)
(* Money.  The program keeps amounts in binary floats and accepts any      *)
(* float from the caller.  Here an amount is an integer number of half     *)
(* centavos (0.005), so that amounts finer than the 0.01 threshold of the  *)
(* code exist; arithmetic is exact.  0.01 is EPS = 2 units.                *)
(*                                                                         *)
(* Database.  Every table is a function from the ids of its rows to the    *)
(* rows.  A handler is an operator from the database (and the rows its     *)
(* session has read) to the database after commit or rollback, together    *)
(* with the kind of response.  Spec runs one request at a time: a handler  *)
(* is one action and Respond returns the server to idle.  Spec starts     *)
(* with one section registered; SpecSecoes starts from the empty tables    *)
(* and creates and deletes sections, SpecDatas lets the requests name any  *)
(* two days, SpecCommitments adds the PUT on a commitment.  SpecDebits,    *)
(* SpecReversals, SpecUpdates, SpecPair and SpecNoteDelete run the         *)
(* handlers of several workers statement by statement, under the row       *)
(* locks of SELECT ... FOR UPDATE; SpecPairFair adds that every worker     *)
(* runs its handler to the end.  SpecUsers runs concurrent deletions of    *)
(* accounts and SpecAdmin the requests reserved to administrators, issued  *)
(* by every account.                                                       *)
(***************************************************************************)
EXTENDS Integers, FiniteSets, Sequences, TLC

(* ------------------------------ bounds -------------------------------- *)
\* largest amount a request carries, in half centavos
MaxValor == 3
\* rows ever inserted in notas_credito, empenhos, anulacoes_empenho,
\* recolhimentos_saldo (the id sequences stop there)
MaxNC == 2
MaxEmp == 2
MaxAnul == 2
MaxRec == 1
\* audit rows ever committed, that is, requests ever accepted
MaxAudit == 5
\* requests handled at the same time, each by its own worker and session
NProcs == 2
\* sections ever created
MaxSec == 2
\* the last day of the calendar
MaxData == 2
\* rows ever inserted in users
MaxUser == 3

(* -------------------------- program constants ------------------------- *)
\* the 0.01 of "if db_nc.saldo_disponivel < 0.01", in half centavos
EPS == 2

Ativa == "Ativa"
TotalmenteEmpenhada == "Totalmente Empenhada"
AnulacaoTotal == "Anulacao Total Realizada"
AnulacaoParcial == "Anulacao Parcial Realizada"
SemStatus == "NULL"

\* class UserRole
ADMINISTRADOR == "ADMINISTRADOR"
OPERADOR == "OPERADOR"

(* ------------------------------- inputs ------------------------------- *)
\* amounts a caller may send: one negative, zero, and 1..MaxValor
Valores == -1 .. MaxValor
\* numero_nc / numero_ne codes a caller may send
Numeros == {"A", "B"}
\* authenticated callers: username and role of the row of users the token names
Users == {[username |-> "admin", role |-> ADMINISTRADOR],
          [username |-> "oper", role |-> OPERADOR]}
NCIds == 1 .. MaxNC
EmpIds == 1 .. MaxEmp
Procs == 1 .. NProcs
SecIds == 1 .. MaxSec
UserIds == 1 .. MaxUser
\* the names an account can have
Usernames == {"admin", "oper", "novo"}
\* the days a request can name, as day numbers
Datas == 1 .. MaxData
\* the names a request gives a section
Nomes == {"X", "Y"}

VARIABLES
    notas,          \* table notas_credito: id -> [numero_nc, valor, saldo_disponivel, status]
    empenhos,       \* table empenhos: id -> [numero_ne, valor, status, nota_credito_id, valor_criacao]
    anulacoes,      \* table anulacoes_empenho: id -> [empenho_id, valor]
    recolhimentos,  \* table recolhimentos_saldo: id -> [nota_credito_id, valor]
    secoes,         \* table secoes: id -> [nome]
    users,          \* table users: id -> [username, role]
    audit,          \* table audit_logs: number of rows and the newest row
    seq,            \* the id sequences of the tables
    resp,           \* Spec: the operation just handled and the kind of its response
    procs,          \* concurrent requests: per worker, its request and its session
    lockNC,         \* row locks of notas_credito: id -> the worker holding it, or 0
    lockNE          \* row locks of empenhos: id -> the worker holding it, or 0

vars == <<notas, empenhos, anulacoes, recolhimentos, secoes, users, audit, seq, resp,
          procs, lockNC, lockNE>>
ledger == <<notas, empenhos, anulacoes, recolhimentos>>

\* the database as one value
DB == [notas |-> notas, empenhos |-> empenhos, anulacoes |-> anulacoes,
       recolhimentos |-> recolhimentos, secoes |-> secoes, users |-> users,
       audit |-> audit, seq |-> seq]

EmptyTable == [i \in {} |-> 0]

\* the accounts of the callers: the administrator registered when the system
\* was set up and an operator
Accounts ==
    (1 :> [username |-> "admin", role |-> ADMINISTRADOR])
        @@ (2 :> [username |-> "oper", role |-> OPERADOR])

EmptyDB == [notas |-> EmptyTable, empenhos |-> EmptyTable, anulacoes |-> EmptyTable,
            recolhimentos |-> EmptyTable, secoes |-> EmptyTable,
            users |-> Accounts,
            audit |-> [n |-> 0, last |-> <<"", "">>],
            seq |-> [nc |-> 0, ne |-> 0, an |-> 0, rc |-> 0, sc |-> 0, us |-> 2]]

\* DELETE of one row
DeleteRow(t, id) == [i \in DOMAIN t \ {id} |-> t[i]]

\* db.query(T).filter(T.id == id).first(): the row, or None
NoRow == [none |-> TRUE]
First(t, id) == IF id \in DOMAIN t THEN t[id] ELSE NoRow


(* --------------------------- request schemas -------------------------- *)
\* The bodies a handler is called with: FastAPI answers 422 to any other
\* body before the handler runs.
\* valor: float = Field(..., gt=0)
NotaCreditoBase == [numero_nc : Numeros, valor : {v \in Valores : v > 0},
                    data_chegada : Datas, prazo_empenho : Datas,
                    secao_responsavel_id : SecIds]
\* valor: float = Field(..., ge=0)
EmpenhoBase == [numero_ne : Numeros, valor : {v \in Valores : v >= 0},
                nota_credito_id : NCIds, secao_requisitante_id : SecIds]
\* the requests for a note that arrives on the first day and has the last
\* day as its deadline
NotaCreditoNoPrazo ==
    {in \in NotaCreditoBase : in.data_chegada = 1 /\ in.prazo_empenho = MaxData}
\* nome: str
SecaoCreate == [nome : Nomes]
\* username: str, role: UserRole; the password is one that passes the validator
UserCreate == [username : Usernames, role : {ADMINISTRADOR, OPERADOR}]
\* valor: float = Field(..., gt=0)
AnulacaoEmpenhoBase == [empenho_id : EmpIds, valor : {v \in Valores : v > 0}]
\* valor: float = Field(..., gt=0)
RecolhimentoSaldoBase == [nota_credito_id : NCIds, valor : {v \in Valores : v > 0}]

\* A dependency that lets every authenticated caller through.
any_authenticated_user(user) == TRUE

\* Depends(get_current_admin_user): 403 unless the caller is an administrator
get_current_admin_user(user) == user.role = ADMINISTRADOR

(* ------------------------- session and commit ------------------------- *)
Response(d, kind) == [db |-> d, kind |-> kind]

\* db.add(AuditLog(username=..., action=...)): one more row in the session
\* A handler that forgets the audit row.
log_nothing(d, username, action) == d

log_audit_action(d, username, action) ==
    [d EXCEPT !.audit = [n |-> @.n + 1, last |-> <<username, action>>]]

\* unique=True of NotaCredito.numero_nc and of Empenho.numero_ne
IntegrityOK(d) ==
    /\ \A i, j \in DOMAIN d.notas :
          i # j => d.notas[i].numero_nc # d.notas[j].numero_nc
    /\ \A i, j \in DOMAIN d.empenhos :
          i # j => d.empenhos[i].numero_ne # d.empenhos[j].numero_ne
    /\ \A i, j \in DOMAIN d.secoes : i # j => d.secoes[i].nome # d.secoes[j].nome
    /\ \A i, j \in DOMAIN d.users : i # j => d.users[i].username # d.users[j].username
    /\ \A i \in DOMAIN d.notas : d.notas[i].secao_responsavel_id \in DOMAIN d.secoes
    /\ \A i \in DOMAIN d.empenhos : d.empenhos[i].secao_requisitante_id \in DOMAIN d.secoes

\* A commit that keeps what was flushed before the failing statement: the
\* ledger rows of the session without the audit row.
CommitWithoutRollback(d0, d, onError) ==
    IF IntegrityOK(d) THEN Response(d, "ok")
    ELSE Response([d EXCEPT !.audit = d0.audit], onError)

\* db.commit() of a session that started from d0 and now holds d; on
\* IntegrityError the handler (or the closing of the session) rolls back to d0.
Commit(d0, d, onError) ==
    IF IntegrityOK(d) THEN Response(d, "ok") ELSE Response(d0, onError)

\* an UPDATE without its WHERE clause: every row of the table gets the
\* changed columns
FlushEveryRow(t, id, loaded, new) ==
    [i \in DOMAIN t |-> [c \in DOMAIN t[i] |-> IF new[c] # loaded[c] THEN new[c] ELSE t[i][c]]]

\* The UPDATE a flush emits for a row the session loaded as `loaded` and
\* changed to `new`: only the columns whose value changed are written.
Flush(t, id, loaded, new) ==
    IF id \in DOMAIN t
    THEN [t EXCEPT ![id] = [c \in DOMAIN @ |-> IF new[c] # loaded[c] THEN new[c] ELSE @[c]]]
    ELSE t

\* query(AnulacaoEmpenho).filter(empenho_id == id).first() is not None
HasAnulacoesNever(d, empenho_id) == FALSE
HasAnulacoes(d, empenho_id) ==
    \E a \in DOMAIN d.anulacoes : d.anulacoes[a].empenho_id = empenho_id

\* A deletion guard that finds no commitment.
HasEmpenhosNever(d, nc_id) == FALSE

\* query(Empenho).filter(nota_credito_id == id).first() is not None
HasEmpenhos(d, nc_id) ==
    \E e \in DOMAIN d.empenhos : d.empenhos[e].nota_credito_id = nc_id

(* ------------------------------ handlers ------------------------------ *)
\* POST /secoes
create_secao(d, in, user) ==
    LET id == d.seq.sc + 1
        db_secao == [nome |-> in.nome]
        d1 == [d EXCEPT !.secoes = @ @@ (id :> db_secao), !.seq.sc = id]
        d2 == log_audit_action(d1, user.username, "SECTION_CREATED")
    IN Commit(d, d2, "DuplicateIdentifier")

\* the query of delete_secao for a credit note of the section
SecaoTemNotas(d, secao_id) ==
    \E n \in DOMAIN d.notas : d.notas[n].secao_responsavel_id = secao_id

SecaoSemEmpenhos(d, secao_id) == FALSE

\* the query of delete_secao for a commitment of the section
SecaoTemEmpenhos(d, secao_id) ==
    \E e \in DOMAIN d.empenhos : d.empenhos[e].secao_requisitante_id = secao_id

\* DELETE /secoes/{secao_id}; db_secao, temNota and temEmpenho are what the
\* three SELECTs returned
delete_secao(d, secao_id, user, db_secao, temNota, temEmpenho) ==
    IF ~get_current_admin_user(user) THEN Response(d, "Forbidden")
    ELSE IF db_secao = NoRow THEN Response(d, "NotFound")
    ELSE IF temNota THEN Response(d, "Conflict")
    ELSE IF temEmpenho THEN Response(d, "Conflict")
    ELSE LET d1 == [d EXCEPT !.secoes = DeleteRow(@, secao_id)]
             d2 == log_audit_action(d1, user.username, "SECTION_DELETED")
         IN Commit(d, d2, "ServerError")

\* PUT /secoes/{secao_id}; db_secao is the row the SELECT returned
update_secao(d, secao_id, in, user, db_secao) ==
    IF ~get_current_admin_user(user) THEN Response(d, "Forbidden")
    ELSE IF db_secao = NoRow THEN Response(d, "NotFound")
    ELSE LET d1 == [d EXCEPT !.secoes[secao_id].nome = in.nome]
             d2 == log_audit_action(d1, user.username, "SECTION_UPDATED")
         IN Commit(d, d2, "DuplicateIdentifier")

\* Depends(get_current_user): the row of users the token names, with its id,
\* or no row (401)
get_current_user(d, username) ==
    IF \E i \in DOMAIN d.users : d.users[i].username = username
    THEN LET i == CHOOSE j \in DOMAIN d.users : d.users[j].username = username
         IN [id |-> i, username |-> username, role |-> d.users[i].role]
    ELSE NoRow

\* POST /users; admin_user is what get_current_user returned and existe
\* whether the SELECT found the username
create_user(d, in, admin_user, existe) ==
    IF admin_user = NoRow THEN Response(d, "Unauthorized")
    ELSE IF ~get_current_admin_user(admin_user) THEN Response(d, "Forbidden")
    ELSE IF existe THEN Response(d, "DuplicateIdentifier")
    ELSE LET id == d.seq.us + 1
             new_user == [username |-> in.username, role |-> in.role]
             d1 == [d EXCEPT !.users = @ @@ (id :> new_user), !.seq.us = id]
             d2 == log_audit_action(d1, admin_user.username, "USER_CREATED")
         IN Commit(d, d2, "ServerError")

\* the check of delete_user that the caller is not the account to delete
IsOwnAccount(user_id, admin_user) == user_id = admin_user.id

\* DELETE /users/{user_id}; admin_user is what get_current_user returned and
\* db_user the row the SELECT returned; a DELETE that finds its row gone
\* deletes nothing and the commit goes on
delete_user(d, user_id, admin_user, db_user) ==
    IF admin_user = NoRow THEN Response(d, "Unauthorized")
    ELSE IF ~get_current_admin_user(admin_user) THEN Response(d, "Forbidden")
    ELSE IF IsOwnAccount(user_id, admin_user) THEN Response(d, "OwnAccount")
    ELSE IF db_user = NoRow THEN Response(d, "NotFound")
    ELSE LET d1 == [d EXCEPT !.users = DeleteRow(@, user_id)]
             d2 == log_audit_action(d1, admin_user.username, "USER_DELETED")
         IN Commit(d, d2, "ServerError")

\* POST /notas-credito
create_nota_credito(d, in, user) ==
    IF in.secao_responsavel_id \notin DOMAIN d.secoes THEN Response(d, "NotFound")
    ELSE LET id == d.seq.nc + 1
             db_nc == [numero_nc |-> in.numero_nc, valor |-> in.valor,
                       data_chegada |-> in.data_chegada,
                       prazo_empenho |-> in.prazo_empenho,
                       secao_responsavel_id |-> in.secao_responsavel_id,
                       saldo_disponivel |-> in.valor, status |-> Ativa]
             d1 == [d EXCEPT !.notas = @ @@ (id :> db_nc), !.seq.nc = id]
             d2 == log_audit_action(d1, user.username, "NC_CREATED")
         IN Commit(d, d2, "DuplicateIdentifier")

\* PUT /notas-credito/{nc_id}; db_nc is the row the session read
update_nota_credito(d, nc_id, in, user, db_nc) ==
    IF db_nc = NoRow THEN Response(d, "NotFound")
    ELSE LET valor_ja_empenhado == db_nc.valor - db_nc.saldo_disponivel
             novo_saldo == in.valor - valor_ja_empenhado
         IN IF novo_saldo < -EPS THEN Response(d, "InvalidState")
            ELSE LET nc1 == [db_nc EXCEPT !.numero_nc = in.numero_nc,
                                          !.valor = in.valor,
                                          !.data_chegada = in.data_chegada,
                                          !.prazo_empenho = in.prazo_empenho,
                                          !.secao_responsavel_id =
                                              in.secao_responsavel_id,
                                          !.saldo_disponivel = novo_saldo]
                     d1 == [d EXCEPT !.notas = Flush(@, nc_id, db_nc, nc1)]
                     d2 == log_audit_action(d1, user.username, "NC_UPDATED")
                 IN Commit(d, d2, "DuplicateIdentifier")

\* DELETE /notas-credito/{nc_id}; the rows of recolhimentos_saldo and empenhos
\* that reference the note go with it (ondelete="CASCADE"), and with the
\* empenhos their anulacoes
delete_nota_credito(d, nc_id, user, db_nc, temEmpenho) ==
    IF ~get_current_admin_user(user) THEN Response(d, "Forbidden")
    ELSE IF db_nc = NoRow THEN Response(d, "NotFound")
    ELSE IF temEmpenho THEN Response(d, "Conflict")
    ELSE LET gone == {e \in DOMAIN d.empenhos : d.empenhos[e].nota_credito_id = nc_id}
             d1 == [d EXCEPT
                      !.notas = DeleteRow(@, nc_id),
                      !.recolhimentos = [r \in {x \in DOMAIN @ : @[x].nota_credito_id # nc_id} |-> @[r]],
                      !.empenhos = [e \in DOMAIN @ \ gone |-> @[e]],
                      !.anulacoes = [a \in {x \in DOMAIN @ : @[x].empenho_id \notin gone} |-> @[a]]]
             d2 == log_audit_action(d1, user.username, "NC_DELETED")
         IN Commit(d, d2, "IntegrityError")

\* POST /empenhos without the check of the note's status
create_empenho_any_status(d, in, user, db_nc) ==
    IF db_nc = NoRow THEN Response(d, "NotFound")
    ELSE IF in.valor > db_nc.saldo_disponivel THEN Response(d, "InsufficientBalance")
    ELSE LET id == d.seq.ne + 1
             db_empenho == [numero_ne |-> in.numero_ne, valor |-> in.valor,
                            status |-> SemStatus,
                            nota_credito_id |-> in.nota_credito_id,
                            secao_requisitante_id |-> in.secao_requisitante_id,
                            valor_criacao |-> in.valor]
             saldo == db_nc.saldo_disponivel - in.valor
             nc1 == IF saldo < EPS
                    THEN [db_nc EXCEPT !.saldo_disponivel = 0, !.status = TotalmenteEmpenhada]
                    ELSE [db_nc EXCEPT !.saldo_disponivel = saldo]
             d1 == [d EXCEPT !.empenhos = @ @@ (id :> db_empenho), !.seq.ne = id,
                             !.notas = Flush(@, in.nota_credito_id, db_nc, nc1)]
             d2 == log_audit_action(d1, user.username, "EMPENHO_CREATED")
         IN Commit(d, d2, "DuplicateIdentifier")

\* POST /empenhos; db_nc is the row read by the SELECT ... FOR UPDATE.
\* valor_criacao is a history field, not a column: the valor the row was
\* inserted with.
create_empenho(d, in, user, db_nc) ==
    IF db_nc = NoRow THEN Response(d, "NotFound")
    ELSE IF db_nc.status # Ativa THEN Response(d, "InvalidState")
    ELSE IF in.valor > db_nc.saldo_disponivel THEN Response(d, "InsufficientBalance")
    ELSE LET id == d.seq.ne + 1
             db_empenho == [numero_ne |-> in.numero_ne, valor |-> in.valor,
                            status |-> SemStatus,
                            nota_credito_id |-> in.nota_credito_id,
                            secao_requisitante_id |-> in.secao_requisitante_id,
                            valor_criacao |-> in.valor]
             saldo == db_nc.saldo_disponivel - in.valor
             nc1 == IF saldo < EPS
                    THEN [db_nc EXCEPT !.saldo_disponivel = 0, !.status = TotalmenteEmpenhada]
                    ELSE [db_nc EXCEPT !.saldo_disponivel = saldo]
             d1 == [d EXCEPT !.empenhos = @ @@ (id :> db_empenho), !.seq.ne = id,
                             !.notas = Flush(@, in.nota_credito_id, db_nc, nc1)]
             d2 == log_audit_action(d1, user.username, "EMPENHO_CREATED")
         IN Commit(d, d2, "DuplicateIdentifier")

\* DELETE /empenhos/{empenho_id}; db_empenho and temAnulacao are what the two
\* plain SELECTs returned, db_nc what the SELECT ... FOR UPDATE returned
delete_empenho(d, empenho_id, user, db_empenho, temAnulacao, db_nc) ==
    IF ~get_current_admin_user(user) THEN Response(d, "Forbidden")
    ELSE IF db_empenho = NoRow THEN Response(d, "NotFound")
    ELSE IF temAnulacao THEN Response(d, "Conflict")
    ELSE LET nc1 == IF db_nc = NoRow THEN NoRow
                    ELSE [db_nc EXCEPT
                            !.saldo_disponivel = @ + db_empenho.valor,
                            !.status = IF @ = TotalmenteEmpenhada THEN Ativa ELSE @]
             d1 == IF db_nc = NoRow THEN d
                   ELSE [d EXCEPT !.notas = Flush(@, db_empenho.nota_credito_id, db_nc, nc1)]
             d2 == log_audit_action(d1, user.username, "EMPENHO_DELETED")
             d3 == [d2 EXCEPT
                      !.empenhos = DeleteRow(@, empenho_id),
                      !.anulacoes = [a \in {x \in DOMAIN @ : @[x].empenho_id # empenho_id} |-> @[a]]]
         IN Commit(d, d3, "IntegrityError")

\* POST /anulacoes-empenho without the check of the valor against the
\* commitment
create_anulacao_any_valor(d, in, user, db_empenho, db_nc) ==
    IF db_empenho = NoRow THEN Response(d, "NotFound")
    ELSE LET id == d.seq.an + 1
             nc1 == IF db_nc = NoRow THEN NoRow
                    ELSE [db_nc EXCEPT
                            !.saldo_disponivel = @ + in.valor,
                            !.status = IF @ = TotalmenteEmpenhada THEN Ativa ELSE @]
             valor == db_empenho.valor - in.valor
             emp1 == IF valor < EPS
                     THEN [db_empenho EXCEPT !.valor = 0, !.status = AnulacaoTotal]
                     ELSE [db_empenho EXCEPT !.valor = valor, !.status = AnulacaoParcial]
             d1 == IF db_nc = NoRow THEN d
                   ELSE [d EXCEPT !.notas = Flush(@, db_empenho.nota_credito_id, db_nc, nc1)]
             d2 == [d1 EXCEPT
                      !.empenhos = Flush(@, in.empenho_id, db_empenho, emp1),
                      !.anulacoes = @ @@ (id :> [empenho_id |-> in.empenho_id, valor |-> in.valor]),
                      !.seq.an = id]
             d3 == log_audit_action(d2, user.username, "ANULACAO_CREATED")
         IN Commit(d, d3, "IntegrityError")

\* POST /anulacoes-empenho keeping only the last reversal of the commitment
create_anulacao_replacing(d, in, user, db_empenho, db_nc) ==
    IF db_empenho = NoRow THEN Response(d, "NotFound")
    ELSE IF in.valor > db_empenho.valor THEN Response(d, "InvalidAmount")
    ELSE LET id == d.seq.an + 1
             nc1 == IF db_nc = NoRow THEN NoRow
                    ELSE [db_nc EXCEPT
                            !.saldo_disponivel = @ + in.valor,
                            !.status = IF @ = TotalmenteEmpenhada THEN Ativa ELSE @]
             valor == db_empenho.valor - in.valor
             emp1 == IF valor < EPS
                     THEN [db_empenho EXCEPT !.valor = 0, !.status = AnulacaoTotal]
                     ELSE [db_empenho EXCEPT !.valor = valor, !.status = AnulacaoParcial]
             d1 == IF db_nc = NoRow THEN d
                   ELSE [d EXCEPT !.notas = Flush(@, db_empenho.nota_credito_id, db_nc, nc1)]
             kept == [a \in {x \in DOMAIN d.anulacoes :
                               d.anulacoes[x].empenho_id # in.empenho_id} |-> d.anulacoes[a]]
             d2 == [d1 EXCEPT
                      !.empenhos = Flush(@, in.empenho_id, db_empenho, emp1),
                      !.anulacoes = kept @@ (id :> [empenho_id |-> in.empenho_id, valor |-> in.valor]),
                      !.seq.an = id]
             d3 == log_audit_action(d2, user.username, "ANULACAO_CREATED")
         IN Commit(d, d3, "IntegrityError")

\* POST /anulacoes-empenho; db_empenho and db_nc are the rows read by the two
\* SELECT ... FOR UPDATE
create_anulacao(d, in, user, db_empenho, db_nc) ==
    IF db_empenho = NoRow THEN Response(d, "NotFound")
    ELSE IF in.valor > db_empenho.valor THEN Response(d, "InvalidAmount")
    ELSE LET id == d.seq.an + 1
             nc1 == IF db_nc = NoRow THEN NoRow
                    ELSE [db_nc EXCEPT
                            !.saldo_disponivel = @ + in.valor,
                            !.status = IF @ = TotalmenteEmpenhada THEN Ativa ELSE @]
             valor == db_empenho.valor - in.valor
             emp1 == IF valor < EPS
                     THEN [db_empenho EXCEPT !.valor = 0, !.status = AnulacaoTotal]
                     ELSE [db_empenho EXCEPT !.valor = valor, !.status = AnulacaoParcial]
             d1 == IF db_nc = NoRow THEN d
                   ELSE [d EXCEPT !.notas = Flush(@, db_empenho.nota_credito_id, db_nc, nc1)]
             d2 == [d1 EXCEPT
                      !.empenhos = Flush(@, in.empenho_id, db_empenho, emp1),
                      !.anulacoes = @ @@ (id :> [empenho_id |-> in.empenho_id, valor |-> in.valor]),
                      !.seq.an = id]
             d3 == log_audit_action(d2, user.username, "ANULACAO_CREATED")
         IN Commit(d, d3, "IntegrityError")

\* POST /recolhimentos-saldo; db_nc is the row read by the SELECT ... FOR UPDATE
create_recolhimento(d, in, user, db_nc) ==
    IF db_nc = NoRow THEN Response(d, "NotFound")
    ELSE IF in.valor > db_nc.saldo_disponivel THEN Response(d, "InsufficientBalance")
    ELSE LET id == d.seq.rc + 1
             saldo == db_nc.saldo_disponivel - in.valor
             nc1 == IF saldo < EPS
                    THEN [db_nc EXCEPT !.saldo_disponivel = 0, !.status = TotalmenteEmpenhada]
                    ELSE [db_nc EXCEPT !.saldo_disponivel = saldo]
             d1 == [d EXCEPT
                      !.notas = Flush(@, in.nota_credito_id, db_nc, nc1),
                      !.recolhimentos = @ @@ (id :> [nota_credito_id |-> in.nota_credito_id,
                                                     valor |-> in.valor]),
                      !.seq.rc = id]
             d2 == log_audit_action(d1, user.username, "RECOLHIMENTO_CREATED")
         IN Commit(d, d2, "IntegrityError")

(* --------------------- one request at a time: Spec -------------------- *)
\* the id sequences and the audit table stay within the bounds
WithinBounds(d) ==
    /\ d.seq.nc <= MaxNC /\ d.seq.ne <= MaxEmp
    /\ d.seq.an <= MaxAnul /\ d.seq.rc <= MaxRec
    /\ d.seq.sc <= MaxSec
    /\ d.seq.us <= MaxUser
    /\ d.audit.n <= MaxAudit

SetDB(d) ==
    /\ notas' = d.notas
    /\ empenhos' = d.empenhos
    /\ anulacoes' = d.anulacoes
    /\ recolhimentos' = d.recolhimentos
    /\ secoes' = d.secoes
    /\ users' = d.users
    /\ audit' = d.audit
    /\ seq' = d.seq

\* The callers of the endpoints that take any authenticated user
\* (Depends(get_current_user)): these handlers read only the username, so one
\* caller stands for all.  The endpoints of get_current_admin_user are called
\* by every user.
Operador == CHOOSE u \in Users : u.role = OPERADOR
Administrador == CHOOSE u \in Users : u.role = ADMINISTRADOR

Idle == [op |-> "idle", kind |-> ""]

\* What each handler answers to a request when it runs alone on the database
\* as it is: every SELECT of its session sees the current rows.
CreateCreditNoteResult(in, user) == create_nota_credito(DB, in, user)

UpdateCreditNoteResult(n, in, user) ==
    update_nota_credito(DB, n, in, user, First(notas, n))

DeleteCreditNoteResult(n, user) ==
    delete_nota_credito(DB, n, user, First(notas, n), HasEmpenhos(DB, n))

CreateCommitmentResult(in, user) ==
    create_empenho(DB, in, user, First(notas, in.nota_credito_id))

\* the note row of an empenho row, as the session reads it
NotaOf(db_empenho) ==
    IF db_empenho = NoRow THEN NoRow ELSE First(notas, db_empenho.nota_credito_id)

DeleteCommitmentResult(e, user) ==
    delete_empenho(DB, e, user, First(empenhos, e), HasAnulacoes(DB, e),
                   NotaOf(First(empenhos, e)))

CreateReversalResult(in, user) ==
    create_anulacao(DB, in, user, First(empenhos, in.empenho_id),
                    NotaOf(First(empenhos, in.empenho_id)))

CreateReturnResult(in, user) ==
    create_recolhimento(DB, in, user, First(notas, in.nota_credito_id))

\* a worker with no request
IdleProc == [pc |-> "idle", op |-> "", in |-> <<>>, db_nc |-> NoRow,
             db_empenho |-> NoRow, tem |-> FALSE, saldo0 |-> 0, kind |-> "",
             admin_user |-> NoRow, db_user |-> NoRow]

NoWorkers ==
    /\ procs = [p \in Procs |-> IdleProc]
    /\ lockNC = [n \in NCIds |-> 0]
    /\ lockNE = [e \in EmpIds |-> 0]

\* a request arrives when the server is idle and the handler runs to its
\* response r
Reply(op, r) ==
    /\ resp = Idle
    /\ WithinBounds(r.db)
    /\ SetDB(r.db)
    /\ resp' = [op |-> op, kind |-> r.kind]
    /\ UNCHANGED <<procs, lockNC, lockNE>>

\* The database after one accepted POST /secoes
OneSecao == create_secao(EmptyDB, [nome |-> "X"], Operador).db

\* The ledger of an installation whose first section has been registered.
Init ==
    /\ notas = EmptyTable /\ empenhos = EmptyTable
    /\ anulacoes = EmptyTable /\ recolhimentos = EmptyTable
    /\ secoes = OneSecao.secoes
    /\ users = OneSecao.users
    /\ audit = OneSecao.audit /\ seq = OneSecao.seq
    /\ resp = Idle
    /\ NoWorkers

CreateCreditNote ==
    \E in \in NotaCreditoNoPrazo :
        Reply("create_nota_credito", CreateCreditNoteResult(in, Operador))

UpdateCreditNote ==
    \E n \in NCIds, in \in NotaCreditoNoPrazo :
        Reply("update_nota_credito", UpdateCreditNoteResult(n, in, Operador))

DeleteCreditNote ==
    \E user \in Users, n \in NCIds :
        Reply("delete_nota_credito", DeleteCreditNoteResult(n, user))

CreateCommitment ==
    \E in \in EmpenhoBase :
        Reply("create_empenho", CreateCommitmentResult(in, Operador))

DeleteCommitment ==
    \E user \in Users, e \in EmpIds :
        Reply("delete_empenho", DeleteCommitmentResult(e, user))

CreateReversal ==
    \E in \in AnulacaoEmpenhoBase :
        Reply("create_anulacao", CreateReversalResult(in, Operador))

CreateReturn ==
    \E in \in RecolhimentoSaldoBase :
        Reply("create_recolhimento", CreateReturnResult(in, Operador))

\* the response is sent and the server is idle again
Respond ==
    /\ resp # Idle
    /\ resp' = Idle
    /\ UNCHANGED <<notas, empenhos, anulacoes, recolhimentos, secoes, users, audit, seq,
                   procs, lockNC, lockNE>>

Next ==
    \/ CreateCreditNote
    \/ UpdateCreditNote
    \/ DeleteCreditNote
    \/ CreateCommitment
    \/ DeleteCommitment
    \/ CreateReversal
    \/ CreateReturn
    \/ Respond

Spec == Init /\ [][Next]_vars

(* ------------------------------ sections ------------------------------ *)
CreateSectionResult(in, user) == create_secao(DB, in, user)

DeleteSectionResult(s, user) ==
    delete_secao(DB, s, user, First(secoes, s), SecaoTemNotas(DB, s),
                 SecaoTemEmpenhos(DB, s))

CreateSection ==
    \E in \in SecaoCreate :
        Reply("create_secao", CreateSectionResult(in, Operador))

DeleteSection ==
    \E user \in Users, s \in SecIds :
        Reply("delete_secao", DeleteSectionResult(s, user))

\* The tables as create_all leaves them: no section, no note.
InitSecoes ==
    /\ notas = EmptyTable /\ empenhos = EmptyTable
    /\ anulacoes = EmptyTable /\ recolhimentos = EmptyTable
    /\ secoes = EmptyTable
    /\ users = EmptyDB.users
    /\ audit = EmptyDB.audit /\ seq = EmptyDB.seq
    /\ resp = Idle
    /\ NoWorkers

\* Sections are created and deleted while notes and commitments are created,
\* moved to another section and deleted.
NextSecoes ==
    \/ CreateSection
    \/ DeleteSection
    \/ CreateCreditNote
    \/ UpdateCreditNote
    \/ DeleteCreditNote
    \/ CreateCommitment
    \/ DeleteCommitment
    \/ Respond

SpecSecoes == InitSecoes /\ [][NextSecoes]_vars

(* ------------------------------- dates -------------------------------- *)
\* POST and PUT /notas-credito with any two days in the request
CreateCreditNoteDated ==
    \E in \in NotaCreditoBase :
        Reply("create_nota_credito", CreateCreditNoteResult(in, Operador))

UpdateCreditNoteDated ==
    \E n \in NCIds, in \in NotaCreditoBase :
        Reply("update_nota_credito", UpdateCreditNoteResult(n, in, Operador))

NextDatas ==
    \/ CreateCreditNoteDated
    \/ UpdateCreditNoteDated
    \/ Respond

SpecDatas == Init /\ [][NextDatas]_vars

(* ------------------------- PUT /empenhos/{id} -------------------------- *)
\* The only route declared on /empenhos/{empenho_id} is the DELETE one, so the
\* router answers a PUT on that path with 405 and no handler runs.
put_empenho(d, empenho_id, in, user) == Response(d, "MethodNotAllowed")

UpdateCommitmentResult(e, in, user) == put_empenho(DB, e, in, user)

UpdateCommitment ==
    \E e \in EmpIds, in \in EmpenhoBase :
        Reply("put_empenho", UpdateCommitmentResult(e, in, Operador))

NextCommitments ==
    \/ CreateCreditNote
    \/ CreateCommitment
    \/ UpdateCommitment
    \/ DeleteCommitment
    \/ Respond

SpecCommitments == Init /\ [][NextCommitments]_vars

(* ----------------------- concurrent requests ------------------------- *)
(* Each request runs in its own session on a PostgreSQL database at READ   *)
(* COMMITTED: a SELECT sees the rows committed when it runs; a SELECT ...  *)
(* FOR UPDATE waits while another transaction holds the row, then locks    *)
(* and reads the row as last committed; autoflush is off, so everything a  *)
(* session writes reaches the database at db.commit(), which also releases *)
(* its locks, as does the rollback of a session that ends in an error.     *)
(* A worker steps from statement to statement: pc names the next one.      *)

\* A plain SELECT: never waits.
plain_select(lock, p, id) == TRUE

\* .with_for_update(): the SELECT goes on only when no other worker holds the row
with_for_update(lock, p, id) == lock[id] \in {0, p}

Busy == {p \in Procs : procs[p].pc \notin {"idle", "done"}}
BusyWith(op) == {p \in Busy : procs[p].op = op}

\* a request is taken only if its rows and its audit row fit the bounds
\* whatever the requests in flight do
CanBegin(p, op) ==
    /\ procs[p].pc = "idle"
    /\ audit.n + Cardinality(Busy) < MaxAudit
    /\ op = "create_nota_credito" => seq.nc + Cardinality(BusyWith(op)) < MaxNC
    /\ op = "create_empenho" => seq.ne + Cardinality(BusyWith(op)) < MaxEmp
    /\ op = "create_anulacao" => seq.an + Cardinality(BusyWith(op)) < MaxAnul
    /\ op = "create_recolhimento" => seq.rc + Cardinality(BusyWith(op)) < MaxRec

\* the request arrives at worker p; saldo0 is a history field: the balance of
\* the note nc_id as committed at that moment
Begin(p, op, in, nc_id, pc) ==
    /\ CanBegin(p, op)
    /\ procs' = [procs EXCEPT ![p] =
                    [IdleProc EXCEPT !.pc = pc, !.op = op, !.in = in,
                        !.saldo0 = IF nc_id \in DOMAIN notas
                                   THEN notas[nc_id].saldo_disponivel ELSE 0]]
    /\ UNCHANGED <<notas, empenhos, anulacoes, recolhimentos, secoes, users, audit, seq, resp,
                   lockNC, lockNE>>

\* db.query(NotaCredito).filter(id == nc_id).with_for_update().first()
SelectNotaForUpdate(p, nc_id, pc) ==
    /\ nc_id \in DOMAIN notas => with_for_update(lockNC, p, nc_id)
    /\ lockNC' = IF nc_id \in DOMAIN notas THEN [lockNC EXCEPT ![nc_id] = p] ELSE lockNC
    /\ procs' = [procs EXCEPT ![p].db_nc = First(notas, nc_id), ![p].pc = pc]
    /\ UNCHANGED <<notas, empenhos, anulacoes, recolhimentos, secoes, users, audit, seq, resp, lockNE>>

\* db.query(Empenho).filter(id == empenho_id).with_for_update().first()
SelectEmpenhoForUpdate(p, empenho_id, pc) ==
    /\ empenho_id \in DOMAIN empenhos => with_for_update(lockNE, p, empenho_id)
    /\ lockNE' = IF empenho_id \in DOMAIN empenhos
                 THEN [lockNE EXCEPT ![empenho_id] = p] ELSE lockNE
    /\ procs' = [procs EXCEPT ![p].db_empenho = First(empenhos, empenho_id), ![p].pc = pc]
    /\ UNCHANGED <<notas, empenhos, anulacoes, recolhimentos, secoes, users, audit, seq, resp, lockNC>>

\* the worker w once its handler has answered: the session is closed and
\* forgets its rows; the request and the rows of a create_empenho stay as
\* history fields
Answered(w, kind) ==
    IF w.op = "create_empenho" THEN [w EXCEPT !.pc = "done", !.kind = kind]
    ELSE [IdleProc EXCEPT !.pc = "done", !.op = w.op, !.kind = kind]

\* the rest of the handler, to its response r: the commit, or the error and
\* the rollback; either way the transaction ends and its locks go
End(p, r) ==
    /\ SetDB(r.db)
    /\ procs' = [procs EXCEPT ![p] = Answered(@, r.kind)]
    /\ lockNC' = [n \in NCIds |-> IF lockNC[n] = p THEN 0 ELSE lockNC[n]]
    /\ lockNE' = [e \in EmpIds |-> IF lockNE[e] = p THEN 0 ELSE lockNE[e]]
    /\ UNCHANGED resp

\* the response is sent and the worker is free again
Return(p) ==
    /\ procs[p].pc = "done"
    /\ procs' = [procs EXCEPT ![p] = IdleProc]
    /\ UNCHANGED <<notas, empenhos, anulacoes, recolhimentos, secoes, users, audit, seq, resp,
                   lockNC, lockNE>>

At(p, op, pc) == procs[p].op = op /\ procs[p].pc = pc

\* create_empenho, statement by statement
create_empenho_begin(p) ==
    \E in \in EmpenhoBase :
        Begin(p, "create_empenho", in, in.nota_credito_id, "select_nc")
create_empenho_select(p) ==
    /\ At(p, "create_empenho", "select_nc")
    /\ SelectNotaForUpdate(p, procs[p].in.nota_credito_id, "commit")
create_empenho_commit(p) ==
    /\ At(p, "create_empenho", "commit")
    /\ End(p, create_empenho(DB, procs[p].in, Operador, procs[p].db_nc))

\* create_recolhimento, statement by statement
create_recolhimento_begin(p) ==
    \E in \in RecolhimentoSaldoBase :
        Begin(p, "create_recolhimento", in, in.nota_credito_id, "select_nc")
create_recolhimento_select(p) ==
    /\ At(p, "create_recolhimento", "select_nc")
    /\ SelectNotaForUpdate(p, procs[p].in.nota_credito_id, "commit")
create_recolhimento_commit(p) ==
    /\ At(p, "create_recolhimento", "commit")
    /\ End(p, create_recolhimento(DB, procs[p].in, Operador, procs[p].db_nc))

\* create_anulacao, statement by statement: the commitment row is locked
\* first, and the note row only by a request that passed the two checks
create_anulacao_begin(p) ==
    \E in \in AnulacaoEmpenhoBase : Begin(p, "create_anulacao", in, 0, "select_ne")
create_anulacao_select_ne(p) ==
    /\ At(p, "create_anulacao", "select_ne")
    /\ LET in == procs[p].in
           row == First(empenhos, in.empenho_id)
       IN SelectEmpenhoForUpdate(p, in.empenho_id,
              IF row = NoRow \/ in.valor > row.valor THEN "commit" ELSE "select_nc")
create_anulacao_select_nc(p) ==
    /\ At(p, "create_anulacao", "select_nc")
    /\ SelectNotaForUpdate(p, procs[p].db_empenho.nota_credito_id, "commit")
create_anulacao_commit(p) ==
    /\ At(p, "create_anulacao", "commit")
    /\ End(p, create_anulacao(DB, procs[p].in, Operador, procs[p].db_empenho, procs[p].db_nc))

\* db.query(NotaCredito).filter(id == nc_id).first(): no lock, no waiting
SelectNota(p, nc_id, pc) ==
    /\ procs' = [procs EXCEPT ![p].db_nc = First(notas, nc_id), ![p].pc = pc]
    /\ UNCHANGED <<notas, empenhos, anulacoes, recolhimentos, secoes, users, audit, seq, resp,
                   lockNC, lockNE>>

\* the UPDATE or DELETE of a note row that the flush at db.commit() emits
\* waits while another transaction holds the row
CanWriteNota(p, nc_id) == nc_id \in DOMAIN notas => lockNC[nc_id] \in {0, p}

\* update_nota_credito, statement by statement; the request is the path
\* parameter nc_id and the body nc_update
update_nota_credito_begin(p) ==
    \E nc_id \in NCIds, nc_update \in NotaCreditoNoPrazo :
        Begin(p, "update_nota_credito", [nc_id |-> nc_id, nc_update |-> nc_update],
              0, "select_nc")
update_nota_credito_select(p) ==
    /\ At(p, "update_nota_credito", "select_nc")
    /\ SelectNota(p, procs[p].in.nc_id, "commit")
update_nota_credito_commit(p) ==
    /\ At(p, "update_nota_credito", "commit")
    /\ LET in == procs[p].in
           r == update_nota_credito(DB, in.nc_id, in.nc_update, Operador, procs[p].db_nc)
       IN /\ r.kind \in {"ok", "DuplicateIdentifier"} => CanWriteNota(p, in.nc_id)
          /\ End(p, r)

\* db.query(Empenho).filter(id == empenho_id).first(): no lock, no waiting
SelectEmpenho(p, empenho_id, pc) ==
    /\ procs' = [procs EXCEPT ![p].db_empenho = First(empenhos, empenho_id), ![p].pc = pc]
    /\ UNCHANGED <<notas, empenhos, anulacoes, recolhimentos, secoes, users, audit, seq, resp,
                   lockNC, lockNE>>

\* the UPDATE or DELETE of a commitment row that the flush at db.commit()
\* emits waits while another transaction holds the row
CanWriteEmpenho(p, empenho_id) ==
    empenho_id \in DOMAIN empenhos => lockNE[empenho_id] \in {0, p}

\* delete_empenho, statement by statement, called by an administrator: the
\* commitment and its reversals are read without a lock, the note row is
\* locked, and the DELETE of the commitment row is emitted at db.commit()
delete_empenho_begin(p) ==
    \E empenho_id \in EmpIds :
        Begin(p, "delete_empenho", [empenho_id |-> empenho_id], 0, "select_ne")
delete_empenho_select_ne(p) ==
    /\ At(p, "delete_empenho", "select_ne")
    /\ LET empenho_id == procs[p].in.empenho_id
       IN SelectEmpenho(p, empenho_id,
              IF empenho_id \in DOMAIN empenhos THEN "select_an" ELSE "commit")
delete_empenho_select_an(p) ==
    /\ At(p, "delete_empenho", "select_an")
    /\ LET tem == HasAnulacoes(DB, procs[p].in.empenho_id)
       IN procs' = [procs EXCEPT ![p].tem = tem,
                                 ![p].pc = IF tem THEN "commit" ELSE "select_nc"]
    /\ UNCHANGED <<notas, empenhos, anulacoes, recolhimentos, secoes, users, audit, seq, resp,
                   lockNC, lockNE>>
delete_empenho_select_nc(p) ==
    /\ At(p, "delete_empenho", "select_nc")
    /\ SelectNotaForUpdate(p, procs[p].db_empenho.nota_credito_id, "commit")
delete_empenho_commit(p) ==
    /\ At(p, "delete_empenho", "commit")
    /\ LET w == procs[p]
           r == delete_empenho(DB, w.in.empenho_id, Administrador, w.db_empenho, w.tem, w.db_nc)
       IN /\ r.kind = "ok" => CanWriteEmpenho(p, w.in.empenho_id)
          /\ End(p, r)

\* delete_nota_credito, statement by statement, called by an administrator:
\* the note and its commitments are read without a lock, and the DELETE of
\* the note row is emitted at db.commit()
delete_nota_credito_begin(p) ==
    \E nc_id \in NCIds :
        Begin(p, "delete_nota_credito", [nc_id |-> nc_id], 0, "select_nc")
delete_nota_credito_select_nc(p) ==
    /\ At(p, "delete_nota_credito", "select_nc")
    /\ LET nc_id == procs[p].in.nc_id
       IN SelectNota(p, nc_id, IF nc_id \in DOMAIN notas THEN "select_ne" ELSE "commit")
delete_nota_credito_select_ne(p) ==
    /\ At(p, "delete_nota_credito", "select_ne")
    /\ procs' = [procs EXCEPT ![p].tem = HasEmpenhos(DB, procs[p].in.nc_id),
                              ![p].pc = "commit"]
    /\ UNCHANGED <<notas, empenhos, anulacoes, recolhimentos, secoes, users, audit, seq, resp,
                   lockNC, lockNE>>
delete_nota_credito_commit(p) ==
    /\ At(p, "delete_nota_credito", "commit")
    /\ LET w == procs[p]
           r == delete_nota_credito(DB, w.in.nc_id, Administrador, w.db_nc, w.tem)
       IN /\ r.kind = "ok" => CanWriteNota(p, w.in.nc_id)
          /\ End(p, r)

\* worker p cannot take its next step because worker q holds the row it needs
WaitsFor(p, q) ==
    /\ p # q
    /\ \/ /\ procs[p].pc = "select_nc"
          /\ procs[p].op \in {"create_empenho", "create_recolhimento"}
          /\ procs[p].in.nota_credito_id \in DOMAIN notas
          /\ lockNC[procs[p].in.nota_credito_id] = q
       \/ /\ procs[p].pc = "select_nc"
          /\ procs[p].op \in {"create_anulacao", "delete_empenho"}
          /\ procs[p].db_empenho.nota_credito_id \in DOMAIN notas
          /\ lockNC[procs[p].db_empenho.nota_credito_id] = q
       \/ /\ At(p, "create_anulacao", "select_ne")
          /\ procs[p].in.empenho_id \in DOMAIN empenhos
          /\ lockNE[procs[p].in.empenho_id] = q
       \/ /\ At(p, "delete_empenho", "commit")
          /\ procs[p].db_nc # NoRow
          /\ procs[p].in.empenho_id \in DOMAIN empenhos
          /\ lockNE[procs[p].in.empenho_id] = q

\* PostgreSQL finds two transactions waiting for each other and aborts one
\* with an error; no handler catches it, the session is closed and rolled back
deadlock_detected(p) ==
    /\ \E q \in Procs : WaitsFor(p, q) /\ WaitsFor(q, p)
    /\ End(p, Response(DB, "ServerError"))

\* The database after one accepted POST /notas-credito of valor v
OneNote(v) ==
    create_nota_credito(OneSecao, [numero_nc |-> "A", valor |-> v,
                                   data_chegada |-> 1, prazo_empenho |-> MaxData,
                                   secao_responsavel_id |-> 1], Operador).db

\* Concurrent commitments and returns on a note that has just been created.
InitDebits ==
    /\ \E v \in {x \in Valores : x > 0} :
          /\ notas = OneNote(v).notas
          /\ secoes = OneNote(v).secoes
          /\ users = OneNote(v).users
          /\ audit = OneNote(v).audit
          /\ seq = OneNote(v).seq
    /\ empenhos = EmptyTable /\ anulacoes = EmptyTable /\ recolhimentos = EmptyTable
    /\ resp = Idle
    /\ NoWorkers

NextDebits ==
    \E p \in Procs :
        \/ create_empenho_begin(p)
        \/ create_empenho_select(p)
        \/ create_empenho_commit(p)
        \/ create_recolhimento_begin(p)
        \/ create_recolhimento_select(p)
        \/ create_recolhimento_commit(p)
        \/ Return(p)

SpecDebits == InitDebits /\ [][NextDebits]_vars

\* Concurrent updates of, and commitments on, a note that has just been
\* created; every worker takes one request.
NextUpdates ==
    \E p \in Procs :
        \/ update_nota_credito_begin(p)
        \/ update_nota_credito_select(p)
        \/ update_nota_credito_commit(p)
        \/ create_empenho_begin(p)
        \/ create_empenho_select(p)
        \/ create_empenho_commit(p)

SpecUpdates == InitDebits /\ [][NextUpdates]_vars

\* Concurrent reversals and deletions of a commitment that has just been
\* created; every worker takes one request.
NextPair ==
    \E p \in Procs :
        \/ create_anulacao_begin(p)
        \/ create_anulacao_select_ne(p)
        \/ create_anulacao_select_nc(p)
        \/ create_anulacao_commit(p)
        \/ delete_empenho_begin(p)
        \/ delete_empenho_select_ne(p)
        \/ delete_empenho_select_an(p)
        \/ delete_empenho_select_nc(p)
        \/ delete_empenho_commit(p)
        \/ deadlock_detected(p)

\* Concurrent deletions of, and commitments on, a note that has just been
\* created; every worker takes one request.
NextNoteDelete ==
    \E p \in Procs :
        \/ delete_nota_credito_begin(p)
        \/ delete_nota_credito_select_nc(p)
        \/ delete_nota_credito_select_ne(p)
        \/ delete_nota_credito_commit(p)
        \/ create_empenho_begin(p)
        \/ create_empenho_select(p)
        \/ create_empenho_commit(p)

SpecNoteDelete == InitDebits /\ [][NextNoteDelete]_vars

\* the statements of the request worker p has taken, and the abort of its
\* transaction by the deadlock detector
HandlerStep(p) ==
    \/ create_anulacao_select_ne(p)
    \/ create_anulacao_select_nc(p)
    \/ create_anulacao_commit(p)
    \/ delete_empenho_select_ne(p)
    \/ delete_empenho_select_an(p)
    \/ delete_empenho_select_nc(p)
    \/ delete_empenho_commit(p)
    \/ deadlock_detected(p)

\* The database after an accepted POST /empenhos of valor w on that note
OneEmpenho(v, w) ==
    create_empenho(OneNote(v), [numero_ne |-> "A", valor |-> w, nota_credito_id |-> 1,
                                secao_requisitante_id |-> 1],
                   Operador, OneNote(v).notas[1]).db

\* Concurrent reversals of a commitment that has just been created.
InitReversals ==
    /\ \E v \in {x \in Valores : x > 0} :
          \E w \in 0 .. v :
              /\ notas = OneEmpenho(v, w).notas
              /\ empenhos = OneEmpenho(v, w).empenhos
              /\ secoes = OneEmpenho(v, w).secoes
              /\ users = OneEmpenho(v, w).users
              /\ audit = OneEmpenho(v, w).audit
              /\ seq = OneEmpenho(v, w).seq
    /\ anulacoes = EmptyTable /\ recolhimentos = EmptyTable
    /\ resp = Idle
    /\ NoWorkers

NextReversals ==
    \E p \in Procs :
        \/ create_anulacao_begin(p)
        \/ create_anulacao_select_ne(p)
        \/ create_anulacao_select_nc(p)
        \/ create_anulacao_commit(p)
        \/ Return(p)

SpecReversals == InitReversals /\ [][NextReversals]_vars

SpecPair == InitReversals /\ [][NextPair]_vars

\* A worker runs the handler of its request to the end and the deadlock
\* detector runs once deadlock_timeout has passed.
SpecPairFair == SpecPair /\ \A p \in Procs : WF_vars(HandlerStep(p))

(* ======================= properties of the ledger ===================== *)
RECURSIVE SumValor(_, _)
\* the sum of the valor column over the rows S of table t
SumValor(t, S) ==
    IF S = {} THEN 0
    ELSE LET x == CHOOSE y \in S : TRUE IN t[x].valor + SumValor(t, S \ {x})

EmpenhosOf(d, n) == {e \in DOMAIN d.empenhos : d.empenhos[e].nota_credito_id = n}
RecolhimentosOf(d, n) == {r \in DOMAIN d.recolhimentos : d.recolhimentos[r].nota_credito_id = n}
AnulacoesOf(d, e) == {a \in DOMAIN d.anulacoes : d.anulacoes[a].empenho_id = e}

\* original value = balance + current commitment values + return values
Conserved(d, n) ==
    d.notas[n].valor = d.notas[n].saldo_disponivel
                       + SumValor(d.empenhos, EmpenhosOf(d, n))
                       + SumValor(d.recolhimentos, RecolhimentosOf(d, n))

\* the status the epsilon rule derives from a balance
StatusDerived(db_nc) ==
    db_nc.status = IF db_nc.saldo_disponivel < EPS THEN TotalmenteEmpenhada ELSE Ativa

Rejected(r) == r.kind # "ok" /\ r.db = DB

\* C1. Conservation: in every state reached by create/update of a note and
\* create/delete of commitments, reversals and returns, every note has
\* valor = saldo_disponivel + the current values of its commitments + the
\* values of its returns.
C1_Conservation == \A n \in DOMAIN notas : Conserved(DB, n)

\* C2. Non-negativity: every note has saldo_disponivel >= 0 and every
\* commitment has valor >= 0.
C2_NonNegativity ==
    /\ \A n \in DOMAIN notas : notas[n].saldo_disponivel >= 0
    /\ \A e \in DOMAIN empenhos : empenhos[e].valor >= 0

\* C3. Status correctness: whenever CreateCommitment, DeleteCommitment,
\* CreateReversal, CreateReturn or UpdateCreditNote is accepted, the note it
\* touched is afterwards 'Totalmente Empenhada' iff its balance is below 0.01,
\* and 'Ativa' otherwise.
C3_StatusCorrectness ==
    /\ \A in \in EmpenhoBase :
          LET r == CreateCommitmentResult(in, Operador)
          IN r.kind = "ok" => StatusDerived(r.db.notas[in.nota_credito_id])
    /\ \A e \in DOMAIN empenhos, user \in Users :
          LET r == DeleteCommitmentResult(e, user)
              n == empenhos[e].nota_credito_id
          IN r.kind = "ok" /\ n \in DOMAIN r.db.notas => StatusDerived(r.db.notas[n])
    /\ \A in \in AnulacaoEmpenhoBase :
          LET r == CreateReversalResult(in, Operador)
          IN r.kind = "ok" =>
                LET n == empenhos[in.empenho_id].nota_credito_id
                IN n \in DOMAIN r.db.notas => StatusDerived(r.db.notas[n])
    /\ \A in \in RecolhimentoSaldoBase :
          LET r == CreateReturnResult(in, Operador)
          IN r.kind = "ok" => StatusDerived(r.db.notas[in.nota_credito_id])
    /\ \A n \in NCIds, in \in NotaCreditoBase :
          LET r == UpdateCreditNoteResult(n, in, Operador)
          IN r.kind = "ok" => StatusDerived(r.db.notas[n])

\* C4. Idempotent rejection: a request that is answered with an error leaves
\* the notes, commitments, reversals, returns and audit rows as they were.
C4_IdempotentRejection ==
    [][resp' # Idle /\ resp'.kind # "ok" =>
          UNCHANGED <<notas, empenhos, anulacoes, recolhimentos, audit>>]_vars

\* a CreateCommitment that passed the balance check has just failed on the
\* numero_ne collision, and an UpdateCreditNote on the numero_nc collision
C4_Witness ==
    /\ resp = [op |-> "create_empenho", kind |-> "DuplicateIdentifier"]
    /\ \E n \in DOMAIN notas : notas[n].status = Ativa /\ notas[n].saldo_disponivel > 0
C4_WitnessUpdate ==
    resp = [op |-> "update_nota_credito", kind |-> "DuplicateIdentifier"]

\* what the accepted commitments and returns of note n have taken from it
Debited(n) ==
    SumValor(empenhos, EmpenhosOf(DB, n)) + SumValor(recolhimentos, RecolhimentosOf(DB, n))

\* Under SpecDebits a note's valor is the balance it had before any request.
NoOverdraw ==
    \A n \in DOMAIN notas :
        /\ Debited(n) <= notas[n].valor
        /\ notas[n].saldo_disponivel >= 0

\* workers p and q have each answered a CreateCommitment on the same note;
\* both arrived when its balance was the same B, each valor fits B and the
\* two together exceed it
Race(p, q) ==
    /\ p # q
    /\ procs[p].pc = "done" /\ procs[q].pc = "done"
    /\ procs[p].op = "create_empenho" /\ procs[q].op = "create_empenho"
    /\ procs[p].in.nota_credito_id = procs[q].in.nota_credito_id
    /\ procs[p].in.nota_credito_id \in DOMAIN notas
    /\ procs[p].saldo0 = procs[q].saldo0
    /\ procs[p].in.valor <= procs[p].saldo0
    /\ procs[q].in.valor <= procs[p].saldo0
    /\ procs[p].in.valor + procs[q].in.valor > procs[p].saldo0

\* C5 as stated. No overdraw under concurrency: whatever the interleaving of
\* concurrent CreateCommitment and CreateReturn requests on a note, the
\* accepted values never sum to more than the balance available before them;
\* of two concurrent commitments that each fit the balance but jointly exceed
\* it, exactly one is accepted and the other gets InsufficientBalance.
C5_ExactlyOneInsufficient ==
    /\ NoOverdraw
    /\ \A p, q \in Procs :
          Race(p, q) =>
              \/ procs[p].kind = "ok" /\ procs[q].kind = "InsufficientBalance"
              \/ procs[q].kind = "ok" /\ procs[p].kind = "InsufficientBalance"

\* C5 as amended. No overdraw under concurrency: the accepted values never
\* sum to more than the balance available before them; of two concurrent
\* commitments that each fit the balance but jointly exceed it, at most one
\* is accepted, and once one is accepted the other, unless its numero_ne
\* collided, is rejected with InsufficientBalance if it read the note as
\* 'Ativa' and with InvalidState if the accepted one had exhausted the balance.
C5_NoOverdraw ==
    /\ NoOverdraw
    /\ \A p, q \in Procs :
          Race(p, q) =>
              /\ ~(procs[p].kind = "ok" /\ procs[q].kind = "ok")
              /\ procs[p].kind = "ok" /\ procs[q].kind # "DuplicateIdentifier" =>
                    procs[q].kind = IF procs[q].db_nc.status = Ativa
                                    THEN "InsufficientBalance" ELSE "InvalidState"

\* two racing commitments: the one that waited for the row was refused
C5_Witness ==
    \E p, q \in Procs :
        /\ Race(p, q)
        /\ procs[p].kind = "ok"
        /\ procs[q].kind = "InsufficientBalance"
        /\ procs[q].db_nc.saldo_disponivel = procs[q].saldo0 - procs[p].in.valor
C5_WitnessExhausted ==
    \E p, q \in Procs :
        Race(p, q) /\ procs[p].kind = "ok" /\ procs[q].kind = "InvalidState"

\* C6. CreateCommitment is accepted iff the note exists, is 'Ativa' and
\* valor <= saldo_disponivel; when accepted, exactly one commitment with the
\* given valor is added, the balance decreases by exactly valor, and the note
\* is 'Totalmente Empenhada' afterwards exactly when the balance is then zero.
C6_CreateCommitment ==
    \A in \in EmpenhoBase :
        LET r == CreateCommitmentResult(in, Operador)
            n == in.nota_credito_id
        IN /\ r.kind = "ok" <=> /\ n \in DOMAIN notas
                                /\ notas[n].status = Ativa
                                /\ in.valor <= notas[n].saldo_disponivel
           /\ r.kind = "ok" =>
                /\ \E e \in DOMAIN r.db.empenhos :
                      /\ DOMAIN r.db.empenhos = DOMAIN empenhos \cup {e}
                      /\ e \notin DOMAIN empenhos
                      /\ r.db.empenhos[e].valor = in.valor
                      /\ r.db.empenhos[e].nota_credito_id = n
                /\ r.db.notas[n].saldo_disponivel = notas[n].saldo_disponivel - in.valor
                /\ r.db.notas[n].status = TotalmenteEmpenhada
                      <=> r.db.notas[n].saldo_disponivel = 0
           /\ r.kind # "ok" => r.db = DB

\* C7. CreateReversal with 0 < valor <= the commitment's valor reduces the
\* commitment by exactly valor, increases the note's balance by exactly
\* valor and leaves the note 'Ativa'; a reversal above the commitment's valor
\* is rejected and changes nothing.
C7_CreateReversal ==
    \A in \in AnulacaoEmpenhoBase :
        in.empenho_id \in DOMAIN empenhos =>
            LET r == CreateReversalResult(in, Operador)
                e == in.empenho_id
                n == empenhos[e].nota_credito_id
            IN IF in.valor <= empenhos[e].valor
               THEN /\ r.kind = "ok"
                    /\ r.db.empenhos[e].valor = empenhos[e].valor - in.valor
                    /\ r.db.notas[n].saldo_disponivel = notas[n].saldo_disponivel + in.valor
                    /\ r.db.notas[n].status = Ativa
               ELSE Rejected(r)

\* C8. Stored running value: every commitment's stored valor equals its
\* valor at creation minus the sum of the reversals recorded for it, under
\* any interleaving of concurrent CreateReversal requests; hence it never
\* exceeds the creation value and the total reversed never exceeds it.
C8_StoredRunningValue ==
    \A e \in DOMAIN empenhos :
        LET reversed == SumValor(anulacoes, AnulacoesOf(DB, e))
        IN /\ empenhos[e].valor = empenhos[e].valor_criacao - reversed
           /\ empenhos[e].valor <= empenhos[e].valor_criacao
           /\ reversed <= empenhos[e].valor_criacao

\* C9. CreateReturn is accepted iff the note exists and
\* 0 < valor <= saldo_disponivel, whatever the status; when accepted the
\* balance decreases by exactly valor and the note is 'Totalmente Empenhada'
\* afterwards exactly when the balance is then zero; on a note with balance
\* zero it is rejected for insufficient balance and changes nothing.
C9_CreateReturn ==
    \A in \in RecolhimentoSaldoBase :
        LET r == CreateReturnResult(in, Operador)
            n == in.nota_credito_id
        IN /\ r.kind = "ok" <=> /\ n \in DOMAIN notas
                                /\ in.valor <= notas[n].saldo_disponivel
           /\ r.kind = "ok" =>
                /\ r.db.notas[n].saldo_disponivel = notas[n].saldo_disponivel - in.valor
                /\ r.db.notas[n].status = TotalmenteEmpenhada
                      <=> r.db.notas[n].saldo_disponivel = 0
           /\ r.kind # "ok" => r.db = DB
           /\ n \in DOMAIN notas /\ notas[n].saldo_disponivel = 0
                => r.kind = "InsufficientBalance"

\* C10. DeleteCommitment on a commitment with at least one reversal is
\* answered with an error, which is Conflict once the caller is let in as
\* administrator, and leaves the whole database as it was.
C10_DeleteBlockedByReversal ==
    \A e \in DOMAIN empenhos, user \in Users :
        (\E a \in DOMAIN anulacoes : anulacoes[a].empenho_id = e) =>
            LET r == DeleteCommitmentResult(e, user)
            IN /\ Rejected(r)
               /\ user.role = ADMINISTRADOR => r.kind = "Conflict"

\* the deletion of a commitment that has a reversal has just been refused
C10_Witness ==
    /\ resp = [op |-> "delete_empenho", kind |-> "Conflict"]
    /\ \E e \in DOMAIN empenhos : AnulacoesOf(DB, e) # {}

\* C11. DeleteCreditNote on a note that a commitment references is answered
\* with an error (Conflict once the caller is let in as administrator) and
\* changes nothing; it is accepted only when no commitment references the
\* note, and then the note's returns go with it; so every commitment and
\* every return references an existing note.
C11_DeleteNoteGuard ==
    /\ \A n \in NCIds, user \in Users :
          LET r == DeleteCreditNoteResult(n, user)
              referenced == \E e \in DOMAIN empenhos : empenhos[e].nota_credito_id = n
          IN /\ referenced /\ n \in DOMAIN notas =>
                    /\ Rejected(r)
                    /\ user.role = ADMINISTRADOR => r.kind = "Conflict"
             /\ r.kind = "ok" =>
                    /\ ~referenced
                    /\ n \notin DOMAIN r.db.notas
                    /\ RecolhimentosOf(r.db, n) = {}
                    /\ r.db.empenhos = empenhos
    /\ \A e \in DOMAIN empenhos : empenhos[e].nota_credito_id \in DOMAIN notas
    /\ \A x \in DOMAIN recolhimentos : recolhimentos[x].nota_credito_id \in DOMAIN notas

\* the deletion of a note that has a commitment has just been refused
C11_Witness ==
    /\ resp = [op |-> "delete_nota_credito", kind |-> "Conflict"]
    /\ \E n \in DOMAIN notas : EmpenhosOf(DB, n) # {}
\* a note has just been deleted and its return with it
C11_WitnessCascade ==
    /\ resp = [op |-> "delete_nota_credito", kind |-> "ok"]
    /\ seq.rc > 0 /\ recolhimentos = EmptyTable

\* C12. UpdateCreditNote takes already_committed = valor - saldo_disponivel
\* of the stored note; it is rejected, the database unchanged, whenever
\* new valor - already_committed < 0, and when accepted the balance is
\* exactly new valor - already_committed.
C12_UpdateRederivesBalance ==
    \A n \in DOMAIN notas, in \in NotaCreditoBase :
        LET r == UpdateCreditNoteResult(n, in, Operador)
            already_committed == notas[n].valor - notas[n].saldo_disponivel
        IN /\ in.valor - already_committed < 0 => Rejected(r)
           /\ r.kind = "ok" =>
                 r.db.notas[n].saldo_disponivel = in.valor - already_committed

\* C13. UpdateCreditNote re-derives the status from the new balance: a
\* 'Totalmente Empenhada' note whose balance becomes positive becomes 'Ativa'
\* and takes commitments again, and an 'Ativa' note whose new balance is
\* exactly zero becomes 'Totalmente Empenhada'.
C13_UpdateRederivesStatus ==
    \A n \in DOMAIN notas, in \in NotaCreditoBase :
        LET r == UpdateCreditNoteResult(n, in, Operador)
        IN r.kind = "ok" =>
              LET nc == r.db.notas[n]
              IN /\ notas[n].status = TotalmenteEmpenhada /\ nc.saldo_disponivel > 0 =>
                        /\ nc.status = Ativa
                        /\ \A e \in EmpenhoBase :
                              e.nota_credito_id = n =>
                                  create_empenho(r.db, e, Operador, nc).kind # "InvalidState"
                 /\ notas[n].status = Ativa /\ nc.saldo_disponivel = 0 =>
                        nc.status = TotalmenteEmpenhada

\* C14. No lost update: every operation that changes a note's balance,
\* UpdateCreditNote included, reads and writes it under an exclusive lock on
\* the note, so that with UpdateCreditNote running beside CreateCommitment or
\* CreateReturn the final state is that of a serial order of the accepted
\* operations and conservation still holds.  Stated as the half of
\* conservation that every serial order keeps, whatever the amounts: the
\* balance plus what commitments and returns hold never exceeds the valor.
C14_NoLostUpdate ==
    \A n \in DOMAIN notas : notas[n].saldo_disponivel + Debited(n) <= notas[n].valor

\* C15. CreateReversal and DeleteCommitment take the commitment row and the
\* note row in the same fixed order, so no interleaving reaches a state in
\* which each of two requests holds one of the rows and waits for the other.
C15_NoDeadlock ==
    \A p, q \in Procs : ~(WaitsFor(p, q) /\ WaitsFor(q, p))

\* the action kind each handler hands to log_audit_action, and the caller
\* whose request the handler accepts
ActionKind(op) ==
    CASE op = "create_nota_credito" -> "NC_CREATED"
      [] op = "update_nota_credito" -> "NC_UPDATED"
      [] op = "delete_nota_credito" -> "NC_DELETED"
      [] op = "create_empenho" -> "EMPENHO_CREATED"
      [] op = "delete_empenho" -> "EMPENHO_DELETED"
      [] op = "create_anulacao" -> "ANULACAO_CREATED"
      [] op = "create_recolhimento" -> "RECOLHIMENTO_CREATED"
Actor(op) ==
    IF op \in {"delete_nota_credito", "delete_empenho"}
    THEN Administrador.username ELSE Operador.username

\* C16. Audit: an accepted ledger mutation adds exactly one audit row, with
\* the acting username and the action kind, in the same commit as its
\* changes; a rejected one adds none; the tables never change without an
\* audit row being added, nor the audit table without an accepted mutation.
C16_AuditWithMutation ==
    [][/\ resp' # Idle /\ resp'.kind = "ok" =>
              /\ audit'.n = audit.n + 1
              /\ audit'.last = <<Actor(resp'.op), ActionKind(resp'.op)>>
       /\ resp' # Idle /\ resp'.kind # "ok" =>
              /\ audit' = audit
              /\ <<notas, empenhos, anulacoes, recolhimentos>>' =
                    <<notas, empenhos, anulacoes, recolhimentos>>
       /\ <<notas, empenhos, anulacoes, recolhimentos>>' #
             <<notas, empenhos, anulacoes, recolhimentos>> => audit'.n = audit.n + 1
       /\ audit' # audit => resp' # Idle /\ resp'.kind = "ok"]_vars

\* a reversal has just been accepted and its audit row is the newest
C16_Witness ==
    /\ resp = [op |-> "create_anulacao", kind |-> "ok"]
    /\ audit.last = <<"oper", "ANULACAO_CREATED">>
    /\ anulacoes # EmptyTable

\* C17. A note is never deleted while a commitment references it, also when
\* DeleteCreditNote runs beside CreateCommitment on the same note: a
\* commitment that was accepted is never removed, nor left without its note,
\* by the deletion of the note.
C17_AcceptedCommitmentStays ==
    \A p \in Procs :
        /\ procs[p].pc = "done"
        /\ procs[p].op = "create_empenho"
        /\ procs[p].kind = "ok"
        => \E e \in DOMAIN empenhos :
              /\ empenhos[e].numero_ne = procs[p].in.numero_ne
              /\ empenhos[e].nota_credito_id = procs[p].in.nota_credito_id
              /\ empenhos[e].nota_credito_id \in DOMAIN notas

\* C18. A section that a credit note or a commitment references cannot be
\* deleted: the handler's own queries find the reference and the request is
\* refused with nothing changed (the administrator is told of the conflict),
\* so the section of every credit note and of every commitment exists.
C18_SectionGuard ==
    /\ \A s \in DOMAIN secoes, user \in Users :
          (\/ \E n \in DOMAIN notas : notas[n].secao_responsavel_id = s
           \/ \E e \in DOMAIN empenhos : empenhos[e].secao_requisitante_id = s)
          => LET r == DeleteSectionResult(s, user)
             IN /\ Rejected(r)
                /\ user.role = ADMINISTRADOR => r.kind = "Conflict"
    /\ \A n \in DOMAIN notas : notas[n].secao_responsavel_id \in DOMAIN secoes
    /\ \A e \in DOMAIN empenhos : empenhos[e].secao_requisitante_id \in DOMAIN secoes

\* the deletion of a section that only a commitment references has just been
\* refused
C18_Witness ==
    /\ resp = [op |-> "delete_secao", kind |-> "Conflict"]
    /\ \E s \in DOMAIN secoes :
          /\ \E e \in DOMAIN empenhos : empenhos[e].secao_requisitante_id = s
          /\ \A n \in DOMAIN notas : notas[n].secao_responsavel_id # s

\* C19. CreateCreditNote rejects a request whose prazo_empenho precedes its
\* data_chegada, an accepted note starts with saldo_disponivel = valor and
\* status Ativa, and every stored note has prazo_empenho >= data_chegada,
\* also after UpdateCreditNote.
C19_DeadlineAfterArrival ==
    /\ \A in \in NotaCreditoBase :
          LET r == CreateCreditNoteResult(in, Operador)
          IN /\ in.prazo_empenho < in.data_chegada => Rejected(r)
             /\ r.kind = "ok" =>
                   /\ r.db.notas[r.db.seq.nc].saldo_disponivel = in.valor
                   /\ r.db.notas[r.db.seq.nc].status = Ativa
    /\ \A n \in DOMAIN notas : notas[n].prazo_empenho >= notas[n].data_chegada

\* C20. UpdateCommitment is available: for a commitment of a stored note it
\* succeeds exactly when the new valor is at most the note's saldo_disponivel
\* plus the commitment's valor, then stores the new valor, moves the saldo by
\* valor - new valor and re-derives the note's status; otherwise it is
\* refused for insufficient balance with nothing changed.
C20_UpdateCommitment ==
    \A e \in DOMAIN empenhos, in \in EmpenhoBase :
        LET db_empenho == empenhos[e]
            n == db_empenho.nota_credito_id
            r == UpdateCommitmentResult(e, in, Operador)
        IN n \in DOMAIN notas =>
             IF in.valor <= notas[n].saldo_disponivel + db_empenho.valor
             THEN /\ r.kind = "ok"
                  /\ r.db.empenhos[e].valor = in.valor
                  /\ r.db.notas[n].saldo_disponivel =
                        notas[n].saldo_disponivel + db_empenho.valor - in.valor
                  /\ StatusDerived(r.db.notas[n])
             ELSE r.kind = "InsufficientBalance" /\ r.db = DB

\* worker p waits for a row that another worker holds
Waiting(p) == \E q \in Procs : WaitsFor(p, q)

\* C21. A request that waits for a row lock does not wait forever: it gets the
\* row and its handler completes, or it fails with a Busy/Conflict error; it
\* is never ended by an unhandled error of the store.
C21_LockWaitEnds ==
    \A p \in Procs :
        Waiting(p) ~> (procs[p].pc = "done" /\ procs[p].kind # "ServerError")

\* C22. An accepted DeleteCommitment adds the commitment's valor to the
\* saldo_disponivel of its note and turns a Totalmente Empenhada note Ativa
\* only if the resulting saldo is positive: deleting a commitment of valor 0
\* from a Totalmente Empenhada note leaves the status as it was.
C22_DeleteFlipsOnlyIfPositive ==
    \A e \in DOMAIN empenhos :
        LET n == empenhos[e].nota_credito_id
            r == DeleteCommitmentResult(e, Administrador)
        IN r.kind = "ok" /\ n \in DOMAIN notas =>
             /\ r.db.notas[n].saldo_disponivel =
                   notas[n].saldo_disponivel + empenhos[e].valor
             /\ r.db.notas[n].status =
                   IF notas[n].status = TotalmenteEmpenhada
                      /\ r.db.notas[n].saldo_disponivel > 0
                   THEN Ativa ELSE notas[n].status

\* C23. Round trip: whenever CreateCommitment is accepted, the DeleteCommitment
\* of that commitment right after it is accepted and leaves the note with the
\* saldo_disponivel and the status it had before the creation.
C23_RoundTrip ==
    \A in \in EmpenhoBase :
        LET r1 == CreateCommitmentResult(in, Operador)
            n == in.nota_credito_id
            e == r1.db.seq.ne
            r2 == delete_empenho(r1.db, e, Administrador, First(r1.db.empenhos, e),
                                 HasAnulacoes(r1.db, e), First(r1.db.notas, n))
        IN r1.kind = "ok" =>
             /\ r2.kind = "ok"
             /\ r2.db.notas[n].saldo_disponivel = notas[n].saldo_disponivel
             /\ r2.db.notas[n].status = notas[n].status

\* the requests of C24: a commitment of positive valor on a stored note that
\* has commitments and no saldo_disponivel left
Exhausted(in) ==
    /\ in.valor > 0
    /\ in.nota_credito_id \in DOMAIN notas
    /\ notas[in.nota_credito_id].saldo_disponivel = 0
    /\ EmpenhosOf(DB, in.nota_credito_id) # {}

\* C24. A CreateCommitment of positive valor on a note whose commitments have
\* taken its whole saldo_disponivel is refused with nothing changed: as
\* InvalidState when the note is Totalmente Empenhada, which the handler
\* checks first, and as InsufficientBalance only when the note is still Ativa.
C24_ExhaustedNoteRejects ==
    \A in \in EmpenhoBase :
        Exhausted(in) =>
            LET r == CreateCommitmentResult(in, Operador)
            IN /\ Rejected(r)
               /\ r.kind = IF notas[in.nota_credito_id].status = TotalmenteEmpenhada
                           THEN "InvalidState" ELSE "InsufficientBalance"

\* a commitment of positive valor has just been refused on a Totalmente
\* Empenhada note whose commitments took its whole valor
C24_Witness ==
    /\ resp = [op |-> "create_empenho", kind |-> "InvalidState"]
    /\ \E n \in DOMAIN notas :
          /\ notas[n].saldo_disponivel = 0
          /\ notas[n].status = TotalmenteEmpenhada
          /\ SumValor(empenhos, EmpenhosOf(DB, n)) = notas[n].valor

\* C24 as stated: the refusal is always InsufficientBalance.
C24_InsufficientBalance ==
    \A in \in EmpenhoBase :
        Exhausted(in) =>
            LET r == CreateCommitmentResult(in, Operador)
            IN Rejected(r) /\ r.kind = "InsufficientBalance"

\* C25. Under any interleaving of a DeleteCommitment and a CreateReversal on
\* the same commitment the note is credited at most the valor the commitment
\* had: its saldo_disponivel plus what its commitments and returns hold never
\* exceeds its valor, and the commitment of an accepted reversal is not
\* removed by the deletion.
C25_DeleteAgainstReversal ==
    /\ \A n \in DOMAIN notas :
          notas[n].saldo_disponivel + SumValor(empenhos, EmpenhosOf(DB, n))
            + SumValor(recolhimentos, RecolhimentosOf(DB, n)) <= notas[n].valor
    /\ (\E p \in Procs : procs[p].pc = "done" /\ procs[p].op = "create_anulacao"
                          /\ procs[p].kind = "ok")
          => /\ empenhos # EmptyTable
             /\ \A q \in Procs :
                   ~(procs[q].pc = "done" /\ procs[q].op = "delete_empenho"
                     /\ procs[q].kind = "ok")

\* C26. When two DeleteCommitment requests for the same commitment run
\* at the same time, at most one is accepted and the valor of the commitment
\* is credited to the note once: the note never holds more than its valor.
C26_DeleteOnce ==
    (\A p \in Procs : procs[p].op = "delete_empenho") =>
        /\ Cardinality({p \in Procs : procs[p].pc = "done" /\ procs[p].kind = "ok"}) <= 1
        /\ \A n \in DOMAIN notas : notas[n].saldo_disponivel <= notas[n].valor

\* what note n and its commitments and returns hold together
Held(d, n) ==
    d.notas[n].saldo_disponivel + SumValor(d.empenhos, EmpenhosOf(d, n))
        + SumValor(d.recolhimentos, RecolhimentosOf(d, n))

\* C27. The near-zero clamp of CreateCommitment, CreateReturn and
\* CreateReversal discards no amount: an accepted request of any resolution
\* leaves saldo_disponivel + the valor of the commitments + the valor of the
\* returns of the note as it was.
C27_ClampKeepsTotal ==
    /\ \A in \in EmpenhoBase :
          LET r == CreateCommitmentResult(in, Operador)
          IN r.kind = "ok" => Held(r.db, in.nota_credito_id) = Held(DB, in.nota_credito_id)
    /\ \A in \in RecolhimentoSaldoBase :
          LET r == CreateReturnResult(in, Operador)
          IN r.kind = "ok" => Held(r.db, in.nota_credito_id) = Held(DB, in.nota_credito_id)
    /\ \A in \in AnulacaoEmpenhoBase :
          LET r == CreateReversalResult(in, Operador)
          IN r.kind = "ok" /\ empenhos[in.empenho_id].nota_credito_id \in DOMAIN notas =>
               Held(r.db, empenhos[in.empenho_id].nota_credito_id)
                 = Held(DB, empenhos[in.empenho_id].nota_credito_id)

\* C28. A commitment's status is Anulacao Total Realizada exactly when it has
\* a reversal and its valor is 0, Anulacao Parcial Realizada exactly when it
\* has a reversal and its valor is positive, and unset exactly when it has no
\* reversal; a reversal on a commitment that is Anulacao Total Realizada is
\* refused with nothing changed.
C28_StatusAnnotation ==
    /\ \A e \in DOMAIN empenhos :
          LET has == AnulacoesOf(DB, e) # {}
          IN /\ empenhos[e].status = AnulacaoTotal <=> (has /\ empenhos[e].valor = 0)
             /\ empenhos[e].status = AnulacaoParcial <=> (has /\ empenhos[e].valor > 0)
             /\ empenhos[e].status = SemStatus <=> ~has
    /\ \A in \in AnulacaoEmpenhoBase :
          (/\ in.empenho_id \in DOMAIN empenhos
           /\ empenhos[in.empenho_id].status = AnulacaoTotal)
          => Rejected(CreateReversalResult(in, Operador))

\* a reversal has just been refused for its valor when every stored
\* commitment is fully reversed
C28_Witness ==
    /\ resp = [op |-> "create_anulacao", kind |-> "InvalidAmount"]
    /\ empenhos # EmptyTable
    /\ \A e \in DOMAIN empenhos : empenhos[e].status = AnulacaoTotal

OthersUnchanged(d, n, e) ==
    /\ \A m \in DOMAIN notas \ {n} : m \in DOMAIN d.notas /\ d.notas[m] = notas[m]
    /\ \A f \in DOMAIN empenhos \ {e} :
          f \in DOMAIN d.empenhos /\ d.empenhos[f] = empenhos[f]

\* C30. Frame: CreateCommitment, DeleteCommitment, CreateReversal,
\* CreateReturn and UpdateCreditNote change no note other than the targeted
\* one (or the owner of the targeted commitment) and no commitment other
\* than the targeted one.
C30_Frame ==
    /\ \A in \in EmpenhoBase :
          OthersUnchanged(CreateCommitmentResult(in, Operador).db, in.nota_credito_id, 0)
    /\ \A e \in DOMAIN empenhos, user \in Users :
          OthersUnchanged(DeleteCommitmentResult(e, user).db, empenhos[e].nota_credito_id, e)
    /\ \A in \in AnulacaoEmpenhoBase :
          in.empenho_id \in DOMAIN empenhos =>
              OthersUnchanged(CreateReversalResult(in, Operador).db,
                              empenhos[in.empenho_id].nota_credito_id, in.empenho_id)
    /\ \A in \in RecolhimentoSaldoBase :
          OthersUnchanged(CreateReturnResult(in, Operador).db, in.nota_credito_id, 0)
    /\ \A n \in NCIds, in \in NotaCreditoBase :
          OthersUnchanged(UpdateCreditNoteResult(n, in, Operador).db, n, 0)

\* a reversal has just been accepted while two notes are stored
C30_Witness ==
    /\ resp = [op |-> "create_anulacao", kind |-> "ok"]
    /\ Cardinality(DOMAIN notas) = 2

\* C31. In every state reached by a sequence of requests the
\* saldo_disponivel of a note is at most its valor: reversals, deletions of
\* commitments and edits of the valor return no more than was debited.
C31_BalanceAtMostValue ==
    \A n \in DOMAIN notas : notas[n].saldo_disponivel <= notas[n].valor

\* a reversal has just returned to a note all that its commitment had taken
C31_Witness ==
    /\ resp = [op |-> "create_anulacao", kind |-> "ok"]
    /\ \E e \in DOMAIN empenhos :
          /\ empenhos[e].valor_criacao > 0
          /\ empenhos[e].valor = 0
          /\ empenhos[e].nota_credito_id \in DOMAIN notas
          /\ notas[empenhos[e].nota_credito_id].saldo_disponivel =
                notas[empenhos[e].nota_credito_id].valor

\* C32. Once a reversal is recorded on a commitment, no request removes the
\* reversal, the commitment or the note of the commitment: DeleteCommitment
\* stays refused because of the reversal and DeleteCreditNote because of the
\* commitment.
C32_ReversalPins ==
    [][\A a \in DOMAIN anulacoes :
          LET e == anulacoes[a].empenho_id
          IN /\ a \in DOMAIN anulacoes' /\ anulacoes'[a] = anulacoes[a]
             /\ e \in DOMAIN empenhos /\ e \in DOMAIN empenhos'
             /\ empenhos[e].nota_credito_id \in DOMAIN notas
             /\ empenhos[e].nota_credito_id \in DOMAIN notas'
             /\ \A user \in Users :
                   /\ Rejected(DeleteCommitmentResult(e, user))
                   /\ Rejected(DeleteCreditNoteResult(empenhos[e].nota_credito_id, user))]_vars

\* the deletion of the note of a commitment that has a reversal has just been
\* refused
C32_Witness ==
    /\ resp = [op |-> "delete_nota_credito", kind |-> "Conflict"]
    /\ \E a \in DOMAIN anulacoes :
          /\ anulacoes[a].empenho_id \in DOMAIN empenhos
          /\ Cardinality(DOMAIN notas) = 1

(* ------------------- concurrent requests: user accounts ---------------- *)

\* DELETE /users/{user_id} arrives at worker p with a token issued to username
delete_user_begin(p) ==
    \E username \in Usernames, user_id \in UserIds :
        Begin(p, "delete_user", [username |-> username, user_id |-> user_id], 0, "auth")

\* Depends(get_current_admin_user): the caller's row is read, without a lock;
\* the handler goes on to its SELECT only for an administrator who names
\* another account
delete_user_auth(p) ==
    /\ At(p, "delete_user", "auth")
    /\ LET admin_user == get_current_user(DB, procs[p].in.username)
           goes_on == /\ admin_user # NoRow
                      /\ get_current_admin_user(admin_user)
                      /\ ~IsOwnAccount(procs[p].in.user_id, admin_user)
       IN procs' = [procs EXCEPT ![p].admin_user = admin_user,
                                 ![p].pc = IF goes_on THEN "select" ELSE "commit"]
    /\ UNCHANGED <<notas, empenhos, anulacoes, recolhimentos, secoes, users, audit, seq, resp,
                   lockNC, lockNE>>

\* db.query(User).filter(User.id == user_id).first(), without a lock
delete_user_select(p) ==
    /\ At(p, "delete_user", "select")
    /\ procs' = [procs EXCEPT ![p].db_user = First(users, procs[p].in.user_id),
                              ![p].pc = "commit"]
    /\ UNCHANGED <<notas, empenhos, anulacoes, recolhimentos, secoes, users, audit, seq, resp,
                   lockNC, lockNE>>

delete_user_commit(p) ==
    /\ At(p, "delete_user", "commit")
    /\ LET w == procs[p]
       IN End(p, delete_user(DB, w.in.user_id, w.admin_user, w.db_user))

\* the accounts before the requests: the first administrator, an operator and
\* perhaps a third account that create_user added
ThirdAccount(role) ==
    create_user(EmptyDB, [username |-> "novo", role |-> role],
                get_current_user(EmptyDB, "admin"), FALSE).db

InitUsers ==
    \E d \in {EmptyDB} \cup {ThirdAccount(role) : role \in {ADMINISTRADOR, OPERADOR}} :
        /\ notas = d.notas
        /\ empenhos = d.empenhos
        /\ anulacoes = d.anulacoes
        /\ recolhimentos = d.recolhimentos
        /\ secoes = d.secoes
        /\ users = d.users
        /\ audit = d.audit
        /\ seq = d.seq
        /\ resp = Idle
        /\ procs = [p \in Procs |-> IdleProc]
        /\ lockNC = [n \in NCIds |-> 0]
        /\ lockNE = [e \in EmpIds |-> 0]

NextUsers ==
    \E p \in Procs :
        \/ delete_user_begin(p)
        \/ delete_user_auth(p)
        \/ delete_user_select(p)
        \/ delete_user_commit(p)

\* two workers, one delete_user request each
SpecUsers == InitUsers /\ [][NextUsers]_vars

\* the accounts with the role ADMINISTRADOR
Administrators == {i \in DOMAIN users : users[i].role = ADMINISTRADOR}

UpdateSectionResult(s, in, user) == update_secao(DB, s, in, user, First(secoes, s))

CreateUserResult(in, admin_user) ==
    create_user(DB, in, admin_user,
                \E i \in DOMAIN users : users[i].username = in.username)

DeleteUserResult(u, admin_user) == delete_user(DB, u, admin_user, First(users, u))

\* the answer to a request that carries a token issued to username: 401 when
\* the account is gone, else the handler's answer r
Authenticated(username, r) ==
    IF get_current_user(DB, username) = NoRow THEN Response(DB, "Unauthorized") ELSE r

DeleteCreditNoteRequest ==
    \E username \in Usernames, n \in NCIds :
        Reply("delete_nota_credito",
              Authenticated(username,
                  DeleteCreditNoteResult(n, get_current_user(DB, username))))

DeleteCommitmentRequest ==
    \E username \in Usernames, e \in EmpIds :
        Reply("delete_empenho",
              Authenticated(username,
                  DeleteCommitmentResult(e, get_current_user(DB, username))))

UpdateSectionRequest ==
    \E username \in Usernames, s \in SecIds, in \in SecaoCreate :
        Reply("update_secao",
              Authenticated(username,
                  UpdateSectionResult(s, in, get_current_user(DB, username))))

DeleteSectionRequest ==
    \E username \in Usernames, s \in SecIds :
        Reply("delete_secao",
              Authenticated(username,
                  DeleteSectionResult(s, get_current_user(DB, username))))

CreateUserRequest ==
    \E username \in Usernames, in \in UserCreate :
        Reply("create_user", CreateUserResult(in, get_current_user(DB, username)))

DeleteUserRequest ==
    \E username \in Usernames, u \in UserIds :
        Reply("delete_user", DeleteUserResult(u, get_current_user(DB, username)))

\* A ledger with a section, perhaps a note, perhaps a commitment on it.
InitAdmin ==
    /\ \E d \in {OneSecao} \cup {OneNote(v) : v \in {x \in Valores : x > 0}}
                \cup {OneEmpenho(MaxValor, w) : w \in 0 .. MaxValor} :
          /\ notas = d.notas
          /\ empenhos = d.empenhos
          /\ anulacoes = d.anulacoes
          /\ recolhimentos = d.recolhimentos
          /\ secoes = d.secoes
          /\ users = d.users
          /\ audit = d.audit
          /\ seq = d.seq
    /\ resp = Idle
    /\ NoWorkers

\* Every request that needs get_current_admin_user, from every account, and
\* the creation of sections.
NextAdmin ==
    \/ CreateSection
    \/ DeleteCreditNoteRequest
    \/ DeleteCommitmentRequest
    \/ UpdateSectionRequest
    \/ DeleteSectionRequest
    \/ CreateUserRequest
    \/ DeleteUserRequest
    \/ Respond

SpecAdmin == InitAdmin /\ [][NextAdmin]_vars

\* the answers to every request that needs get_current_admin_user, issued by
\* user in the current state
AdminRequests(user) ==
    {DeleteCreditNoteResult(n, user) : n \in NCIds}
        \cup {DeleteCommitmentResult(e, user) : e \in EmpIds}
        \cup {UpdateSectionResult(s, in, user) : s \in SecIds, in \in SecaoCreate}
        \cup {DeleteSectionResult(s, user) : s \in SecIds}
        \cup {CreateUserResult(in, user) : in \in UserCreate}
        \cup {DeleteUserResult(u, user) : u \in UserIds}

\* C34. DeleteCreditNote, DeleteCommitment, section update and delete and
\* user create and delete take effect only when the acting user's role is
\* ADMINISTRADOR: in every state, each of these requests issued by an OPERADOR
\* is rejected as forbidden and leaves every table and the audit log as they
\* are, and a request that changes anything comes from an ADMINISTRADOR.
C34_AdministratorOnly ==
    \A username \in Usernames :
        LET user == get_current_user(DB, username)
        IN user # NoRow =>
              \A r \in AdminRequests(user) :
                  /\ user.role = OPERADOR => r.kind = "Forbidden" /\ r.db = DB
                  /\ r.db # DB => user.role = ADMINISTRADOR

\* an operator's deletion of a note has just been refused as forbidden, and
\* the same request from an administrator would be accepted
C34_Witness ==
    /\ resp = [op |-> "delete_nota_credito", kind |-> "Forbidden"]
    /\ \E n \in DOMAIN notas, username \in Usernames :
          LET user == get_current_user(DB, username)
          IN /\ user # NoRow
             /\ user.role = ADMINISTRADOR
             /\ DeleteCreditNoteResult(n, user).kind = "ok"

=============================================================================
